---------------------------- MODULE Spec2Model ----------------------------
(***************************************************************************)
(* The AMI-IABP one-year mortality risk calculator (streamlit_app.py).     *)
(*                                                                         *)
(* The script is run top to bottom by Streamlit on every user interaction. *)
(* A run loads the model and the schema (lines 55-63), collects the widget *)
(* values into `inputs` (87-102), fills the schema's missing names with    *)
(* defaults (104-105) and, when "Calculate Risk" was pressed, assembles    *)
(* the frame X (110), coerces its columns (111-112), scores it (114-118)   *)
(* and picks the tier badge (120-125).                                     *)
(*                                                                         *)
(* Floats are fixed-point integers in units of 1/Scale.  A Python value is *)
(* a record [t, v]: t is its type, v its number.                           *)
(***************************************************************************)
EXTENDS Integers, Sequences, FiniteSets

VARIABLES
    modelFile,     \* the artifact at model_path (environment, never written)
    metaFile,      \* the artifact at meta_path  (environment, never written)
    session,       \* Streamlit widget state of the editable widgets
    pc,            \* position of the running script
    err,           \* the statement whose exception ended the run, "" if none
    model,         \* the loaded classifier
    train_order,   \* meta["features"]
    binary_feats,  \* set(meta["binary_features"])
    thr_low,       \* float(meta["risk_thresholds"]["low"])
    thr_high,      \* float(meta["risk_thresholds"]["high"])
    inputs,        \* the dict of collected values
    X,             \* the one-row DataFrame: [columns, row]
    risk,          \* the probability shown
    badge,         \* the tier of the badge shown
    path,          \* which branch of the try/except produced risk
    seen           \* history: a completed request remembered for comparison

vars == <<modelFile, metaFile, session, pc, err, model, train_order,
          binary_feats, thr_low, thr_high, inputs, X, risk, badge, path, seen>>

----------------------------------------------------------------------------
(* Bounds of the model *)

\* Longest feature list of a schema artifact.
MaxFeatures == 2

\* Names a schema artifact may list: two that the form shows, two it does not.
SchemaNames == {"age", "beta_blocker_use", "bmi", "diabetes"}

\* Names a schema artifact may mark binary.
BinaryNames == {"beta_blocker_use", "diabetes"}

\* The widgets the user changes; every other widget keeps its initial value.
EditableFields == {"age", "beta_blocker_use"}

\* The numbers the user types into a number input (whole-valued floats).
NumberChoices == {0, 1, -2}

\* Threshold pairs (low, high) of a schema artifact: an ordered pair, the
\* widest ordered pair, and an ill-ordered one.
ThrPairs == {<<268, 731>>, <<0, 1000>>, <<731, 268>>}

----------------------------------------------------------------------------
(* Python values *)

\* 1.0 in fixed point.
Scale == 1000

\* e in fixed point.
EulerMilli == 2718

\* A name that is not bound yet.
Unset == -1

IntVal(n)   == [t |-> "int",   v |-> n]
FloatVal(n) == [t |-> "float", v |-> n]
\* A string that is not the text of a number.
TextVal     == [t |-> "str",   v |-> 0]
NaN         == [t |-> "nan",   v |-> 0]
\* The outcome of an operation that raised.
Raised      == [t |-> "raise", v |-> 0]

Range(s) == {s[i] : i \in DOMAIN s}

EmptyDict == [k \in {} |-> IntVal(0)]

NoFrame == [columns |-> <<>>, row |-> <<>>]

NoModel == [proba |-> "", decision |-> ""]

----------------------------------------------------------------------------
(* The form *)

UI_GROUPS == <<
    <<"Demographics & Hospitalization", <<"age", "ICU_LOS">> >>,
    <<"Hematology", <<"hemoglobin_min", "hemoglobin_max", "rbc_count_max">> >>,
    <<"Renal Function", <<"creatinine_min", "creatinine_max", "eGFR_CKD_EPI_21">> >>,
    <<"Inflammatory / Immune Markers", <<"neutrophils_abs_min", "eosinophils_abs_max",
                                         "neutrophils_pct_min", "eosinophils_pct_max">> >>,
    <<"Metabolic & Biochemistry", <<"sodium_max", "lactate_max", "AST_min">> >>,
    <<"Hemodynamics", <<"dbp_post_iabp">> >>,
    <<"Therapies & Interventions", <<"beta_blocker_use", "ticagrelor_use",
                                     "invasive_ventilation">> >> >>

\* Every name some group lists: the keys the collection loop writes.
UIFields == UNION {Range(UI_GROUPS[g][2]) : g \in DOMAIN UI_GROUPS}

----------------------------------------------------------------------------
(* The artifacts on disk *)

RECURSIVE SetMin(_)
SetMin(S) == LET x == CHOOSE y \in S : TRUE
             IN  IF S = {x} THEN x
                 ELSE LET m == SetMin(S \ {x}) IN IF x < m THEN x ELSE m

Injective(s) == \A i, j \in DOMAIN s : s[i] = s[j] => i = j

\* Feature lists of a schema: distinct names, at least one.
FeatureLists == {s \in UNION {[1..n -> SchemaNames] : n \in 1..MaxFeatures} :
                    Injective(s)}

\* The keys lines 59-63 read; low and high live inside risk_thresholds.
MetaKeys == {"features", "binary_features", "labels", "risk_thresholds",
             "low", "high"}

GoodMetas == {[status |-> "ok", keys |-> MetaKeys, features |-> fl,
               binary_features |-> b, low |-> p[1], high |-> p[2]] :
                 fl \in FeatureLists, b \in SUBSET BinaryNames, p \in ThrPairs}

SampleMeta == [status |-> "ok", keys |-> MetaKeys,
               features |-> <<"age", "beta_blocker_use">>,
               binary_features |-> {"beta_blocker_use"},
               low |-> 268, high |-> 731]

\* A schema file that is absent, is not JSON, or lacks one of the fields.
BadMetas ==
    {[SampleMeta EXCEPT !.status = s] : s \in {"missing", "corrupt"}}
    \cup {[SampleMeta EXCEPT !.keys = MetaKeys \ k] :
            k \in {{"features"}, {"binary_features"}, {"labels"},
                   {"risk_thresholds", "low", "high"}, {"low"}, {"high"}}}

MetaArtifacts == GoodMetas \cup BadMetas

\* What a classifier's interface does when called: it returns, it does not
\* exist (AttributeError), or it raises some other exception.
Outcomes == {"ok", "absent", "raises"}

GoodModels == {[status |-> "ok", proba |-> a, decision |-> b] :
                 a \in Outcomes, b \in Outcomes}

BadModels == {[status |-> s, proba |-> "ok", decision |-> "ok"] :
                 s \in {"missing", "corrupt"}}

ModelArtifacts == GoodModels \cup BadModels

----------------------------------------------------------------------------
(* Start of a run *)

DefaultSession == [f \in EditableFields |-> 0]

Init ==
    /\ modelFile \in ModelArtifacts
    /\ metaFile \in MetaArtifacts
    /\ session = DefaultSession
    /\ pc = "load_model"
    /\ err = ""
    /\ model = NoModel
    /\ train_order = <<>>
    /\ binary_feats = {}
    /\ thr_low = Unset
    /\ thr_high = Unset
    /\ inputs = EmptyDict
    /\ X = NoFrame
    /\ risk = Unset
    /\ badge = ""
    /\ path = ""
    /\ seen = {}

----------------------------------------------------------------------------
(* Lines 55-63: load model + metadata *)

\* joblib.load(model_path) returns.
ModelLoads(file) == file.status = "ok"

LoadModel ==
    /\ pc = "load_model"
    /\ IF ModelLoads(modelFile)
       THEN /\ model' = [proba |-> modelFile.proba, decision |-> modelFile.decision]
            /\ pc' = "load_meta"
            /\ err' = err
       ELSE /\ model' = model
            /\ pc' = "error"
            /\ err' = "joblib.load"
    /\ UNCHANGED <<modelFile, metaFile, session, train_order, binary_feats,
                   thr_low, thr_high, inputs, X, risk, badge, path, seen>>

\* open(meta_path) and json.load return.
MetaReadable(file) == file.status = "ok"

\* The keys each of lines 59, 60, 61, 62, 63 subscripts.
KeyReads == << {"features"}, {"binary_features"}, {"labels"},
               {"risk_thresholds", "low"}, {"risk_thresholds", "high"} >>

\* Mutant: the fields are read with .get and a fallback, so none is missed.
FirstKeyErrorLenient(file) == 0

\* The first of those lines to raise KeyError, 0 when none does.
FirstKeyError(file) ==
    LET bad == {i \in DOMAIN KeyReads : ~ (KeyReads[i] \subseteq file.keys)}
    IN  IF bad = {} THEN 0 ELSE SetMin(bad)

LoadMeta ==
    /\ pc = "load_meta"
    /\ LET ok == MetaReadable(metaFile)
           k  == IF ok THEN FirstKeyError(metaFile) ELSE 0
           \* the i-th assignment was executed
           done(i) == ok /\ (k = 0 \/ i < k)
       IN  /\ train_order'  = IF done(1) THEN metaFile.features ELSE train_order
           /\ binary_feats' = IF done(2) THEN metaFile.binary_features ELSE binary_feats
           /\ thr_low'      = IF done(4) THEN metaFile.low ELSE thr_low
           /\ thr_high'     = IF done(5) THEN metaFile.high ELSE thr_high
           /\ pc'  = IF ok /\ k = 0 THEN "collect" ELSE "error"
           /\ err' = IF ~ ok THEN "json.load" ELSE IF k = 0 THEN err ELSE "KeyError"
    /\ UNCHANGED <<modelFile, metaFile, session, model, inputs, X, risk, badge,
                   path, seen>>

----------------------------------------------------------------------------
(* Lines 87-105: inputs *)

\* st.radio(..., ["No", "Yes"]): the option at the widget's index.
Radio(f) == IF f \in DOMAIN session /\ session[f] = 1 THEN "Yes" ELSE "No"

\* c.number_input(..., value=0.0): always a float.
NumberInput(f) == FloatVal(IF f \in DOMAIN session THEN session[f] ELSE 0)

\* float(v)
ToFloat(val) == IF val.t \in {"int", "float"} THEN FloatVal(val.v) ELSE Raised

\* Mutant: the radio's choices are mapped the wrong way round.
CollectValueInverted(f) ==
    IF f \in binary_feats
    THEN IF Radio(f) = "Yes" THEN IntVal(0) ELSE IntVal(1)
    ELSE ToFloat(NumberInput(f))

\* Lines 96 and 102: the value stored for a field of the form.
CollectValue(f) ==
    IF f \in binary_feats
    THEN IF Radio(f) = "Yes" THEN IntVal(1) ELSE IntVal(0)
    ELSE ToFloat(NumberInput(f))

Collect ==
    /\ pc = "collect"
    /\ inputs' = [f \in UIFields |-> CollectValue(f)]
    /\ pc' = "defaults"
    /\ UNCHANGED <<modelFile, metaFile, session, err, model, train_order,
                   binary_feats, thr_low, thr_high, X, risk, badge, path, seen>>

\* Mutant: a missing binary feature defaults to 1.
DefaultValueYes(f) == IF f \in binary_feats THEN IntVal(1) ELSE FloatVal(0)

\* Line 105: the default of a name the form did not supply.
DefaultValue(f) == IF f \in binary_feats THEN IntVal(0) ELSE FloatVal(0)

\* Lines 104-105: inputs.setdefault for every name of train_order.
WithDefaults(d) ==
    [f \in DOMAIN d \cup Range(train_order) |->
        IF f \in DOMAIN d THEN d[f] ELSE DefaultValue(f)]

Defaults ==
    /\ pc = "defaults"
    /\ inputs' = WithDefaults(inputs)
    /\ pc' = "button"
    /\ UNCHANGED <<modelFile, metaFile, session, err, model, train_order,
                   binary_feats, thr_low, thr_high, X, risk, badge, path, seen>>

\* Line 109: st.button returned False; the script runs to its end.
ButtonIdle ==
    /\ pc = "button"
    /\ pc' = "end"
    /\ UNCHANGED <<modelFile, metaFile, session, err, model, train_order,
                   binary_feats, thr_low, thr_high, inputs, X, risk, badge,
                   path, seen>>

\* Line 109: "Calculate Risk" was pressed.
ButtonClicked ==
    /\ pc = "button"
    /\ pc' = "assemble"
    /\ UNCHANGED <<modelFile, metaFile, session, err, model, train_order,
                   binary_feats, thr_low, thr_high, inputs, X, risk, badge,
                   path, seen>>

----------------------------------------------------------------------------
(* Lines 110-112: the frame X *)

\* dict.get(f, dflt)
Get(d, f, dflt) == IF f \in DOMAIN d THEN d[f] ELSE dflt

\* Mutant: the row is filled from the last name to the first.
FrameReversed(d) ==
    [columns |-> train_order,
     row     |-> [i \in 1..Len(train_order) |->
                    Get(d, train_order[Len(train_order) + 1 - i], IntVal(0))]]

\* Line 110: one row, one column per name of train_order, in that order.
Frame(d) ==
    [columns |-> train_order,
     row     |-> [i \in 1..Len(train_order) |-> Get(d, train_order[i], IntVal(0))]]

\* Mutant: the names are popped off train_order as the row is built.
AssembleConsuming ==
    /\ pc = "assemble"
    /\ X' = Frame(inputs)
    /\ train_order' = <<>>
    /\ pc' = "coerce"
    /\ UNCHANGED <<modelFile, metaFile, session, err, model, binary_feats,
                   thr_low, thr_high, inputs, risk, badge, path, seen>>

Assemble ==
    /\ pc = "assemble"
    /\ X' = Frame(inputs)
    /\ pc' = "coerce"
    /\ UNCHANGED <<modelFile, metaFile, session, err, model, train_order,
                   binary_feats, thr_low, thr_high, inputs, risk, badge, path,
                   seen>>

\* Series.astype(int): a string that is no integer raises ValueError.
AsTypeInt(val) == IF val.t \in {"int", "float"} THEN IntVal(val.v) ELSE Raised

\* Mutant: errors="raise", what is no number raises.
ToNumericRaise(val) == IF val.t \in {"int", "float"} THEN val ELSE Raised

\* pd.to_numeric(..., errors="coerce"): what is no number becomes NaN.
ToNumeric(val) == IF val.t \in {"int", "float"} THEN val ELSE NaN

\* Series.fillna(0.0)
FillNa(val) == IF val.t = "nan" THEN FloatVal(0) ELSE val

\* Line 112: the new value of column f.
CoerceColumn(f, val) ==
    IF f \in binary_feats THEN AsTypeInt(val) ELSE FillNa(ToNumeric(val))

\* The row once the loop of lines 111-112 has run over every column.
CoercedRow(frame) ==
    [i \in DOMAIN frame.row |-> CoerceColumn(frame.columns[i], frame.row[i])]

\* The columns at which line 112 raises.
CoerceFailures(frame) ==
    {i \in DOMAIN frame.row : CoercedRow(frame)[i] = Raised}

Coerce ==
    /\ pc = "coerce"
    /\ LET bad   == CoerceFailures(X)
           first == IF bad = {} THEN Len(X.row) + 1 ELSE SetMin(bad)
       IN  \* the loop stops at the first column that raises
           /\ X' = [X EXCEPT !.row = [i \in DOMAIN X.row |->
                        IF i < first THEN CoercedRow(X)[i] ELSE X.row[i]]]
           /\ pc'  = IF bad = {} THEN "predict" ELSE "error"
           /\ err' = IF bad = {} THEN err ELSE "astype"
    /\ UNCHANGED <<modelFile, metaFile, session, model, train_order,
                   binary_feats, thr_low, thr_high, inputs, risk, badge, path,
                   seen>>

----------------------------------------------------------------------------
(* Lines 114-118: the risk *)

\* The classifier is a logistic regression: its decision score is linear in
\* the row, with one coefficient per position.
Coef(i) == IF i % 2 = 1 THEN 1 ELSE -1

RECURSIVE Dot(_, _)
Dot(row, n) == IF n = 0 THEN 0 ELSE Dot(row, n - 1) + Coef(n) * row[n].v

\* model.decision_function(X)[0]
DecisionFunction(frame) == Dot(frame.row, Len(frame.row))

\* np.exp(x) in fixed point.
RECURSIVE Exp(_)
Exp(x) == IF x = 0 THEN Scale
          ELSE IF x > 0 THEN (Exp(x - 1) * EulerMilli) \div Scale
          ELSE (Exp(x + 1) * Scale) \div EulerMilli

\* Mutant: the 1.0 of the denominator is left out.
SigmoidNoOne(score) == (Scale * Scale) \div Exp(0 - score)

\* Line 118: 1.0 / (1.0 + np.exp(-score))
Sigmoid(score) == (Scale * Scale) \div (Scale + Exp(0 - score))

\* model.predict_proba(X)[:, 1][0]: the logistic of the decision score.
PredictProba(frame) == Sigmoid(DecisionFunction(frame))

\* Line 116: `except Exception` catches whatever predict_proba raised, the
\* AttributeError of a missing method like any other exception.
Caught(outcome) == outcome \in {"absent", "raises"}

Predict ==
    /\ pc = "predict"
    /\ IF ~ Caught(model.proba)
       THEN /\ risk' = PredictProba(X)
            /\ path' = "primary"
            /\ pc' = "tier"
            /\ err' = err
       ELSE /\ path' = "fallback"
            /\ IF model.decision = "ok"
               THEN /\ risk' = Sigmoid(DecisionFunction(X))
                    /\ pc' = "tier"
                    /\ err' = err
               ELSE /\ risk' = risk
                    /\ pc' = "error"
                    /\ err' = "decision_function"
    /\ UNCHANGED <<modelFile, metaFile, session, model, train_order,
                   binary_feats, thr_low, thr_high, inputs, X, badge, seen>>

----------------------------------------------------------------------------
(* Lines 120-125: the tier *)

\* Mutant: the comparisons are <= instead of <.
TierOfClosed(p, lo, hi) ==
    IF p <= lo THEN "Low"
    ELSE IF p <= hi THEN "Intermediate"
    ELSE "High"

\* Mutant: the last two branches are exchanged.
TierOfSwapped(p, lo, hi) ==
    IF p < lo THEN "Low"
    ELSE IF p < hi THEN "High"
    ELSE "Intermediate"

TierOf(p, lo, hi) ==
    IF p < lo THEN "Low"
    ELSE IF p < hi THEN "Intermediate"
    ELSE "High"

Tier ==
    /\ pc = "tier"
    /\ badge' = TierOf(risk, thr_low, thr_high)
    /\ pc' = "end"
    /\ UNCHANGED <<modelFile, metaFile, session, err, model, train_order,
                   binary_feats, thr_low, thr_high, inputs, X, risk, path, seen>>

----------------------------------------------------------------------------
(* The next run of the script *)

\* The widget states the user can leave the form in: a radio holds the index
\* of "No" or "Yes", a number input one of the numbers.
Sessions == {s \in [EditableFields -> NumberChoices \cup {0, 1}] :
                \A f \in EditableFields :
                    IF f \in binary_feats THEN s[f] \in {0, 1}
                    ELSE s[f] \in NumberChoices}

\* The request the run just completed, if it completed one.
Completed == IF pc = "end" /\ badge # ""
             THEN {[session |-> session, X |-> X, risk |-> risk, badge |-> badge]}
             ELSE {}

\* Every interaction reruns the script from its first line in a fresh
\* namespace.  Only a form that was drawn can have its widgets changed.
Rerun ==
    /\ pc \in {"end", "error"}
    /\ session' \in (IF inputs = EmptyDict THEN {session} ELSE Sessions)
    /\ seen' \in {seen} \cup (IF Completed = {} THEN {} ELSE {Completed})
    /\ pc' = "load_model"
    /\ err' = ""
    /\ model' = NoModel
    /\ train_order' = <<>>
    /\ binary_feats' = {}
    /\ thr_low' = Unset
    /\ thr_high' = Unset
    /\ inputs' = EmptyDict
    /\ X' = NoFrame
    /\ risk' = Unset
    /\ badge' = ""
    /\ path' = ""
    /\ UNCHANGED <<modelFile, metaFile>>

Next ==
    \/ LoadModel
    \/ LoadMeta
    \/ Collect
    \/ Defaults
    \/ ButtonIdle
    \/ ButtonClicked
    \/ Assemble
    \/ Coerce
    \/ Predict
    \/ Tier
    \/ Rerun

Spec == Init /\ [][Next]_vars

----------------------------------------------------------------------------
(* The assembler on its own: lines 104-125 applied to any mapping a caller   *)
(* may hand over in place of the form's.                                     *)

\* Values of a raw mapping: an int, a float, a string that is no number.
RawValues == {IntVal(1), FloatVal(-2), TextVal}

\* Names a raw mapping may carry.
RawNames == {"age", "beta_blocker_use", "bmi"}

\* Any subset of the names, each with any raw value.
RawInputs == UNION {[S -> RawValues] : S \in SUBSET RawNames}

Supply ==
    /\ pc = "collect"
    /\ inputs' \in RawInputs
    /\ pc' = "defaults"
    /\ UNCHANGED <<modelFile, metaFile, session, err, model, train_order,
                   binary_feats, thr_low, thr_high, X, risk, badge, path, seen>>

NextAssemble ==
    \/ LoadModel
    \/ LoadMeta
    \/ Supply
    \/ Defaults
    \/ ButtonClicked
    \/ Assemble
    \/ Coerce
    \/ Predict
    \/ Tier

SpecAssemble == Init /\ [][NextAssemble]_vars

----------------------------------------------------------------------------
(* Properties *)

\* The run scored a request and drew its badge.
Done == pc = "end" /\ badge # ""

\* Line 115 was reached: X was handed to the model.
Passed == path # ""

\* Some artifact is missing or corrupt.
BadStartup ==
    \/ modelFile.status # "ok"
    \/ metaFile.status # "ok"
    \/ metaFile.keys # MetaKeys

Rank(t) == IF t = "Low" THEN 1 ELSE IF t = "Intermediate" THEN 2 ELSE 3

\* C1: with thr_low < thr_high the badge shown is Low when risk < thr_low,
\* Intermediate when thr_low <= risk < thr_high and High when
\* risk >= thr_high; a risk on a threshold takes the tier above it.
TierBoundaries ==
    (Done /\ thr_low < thr_high) =>
        /\ (risk < thr_low) => badge = "Low"
        /\ (thr_low <= risk /\ risk < thr_high) => badge = "Intermediate"
        /\ (risk >= thr_high) => badge = "High"

\* A request scored exactly thr_low, after one that scored exactly thr_high.
TierBoundariesWitness ==
    /\ Done
    /\ thr_low < thr_high
    /\ risk = thr_low
    /\ badge = "Intermediate"
    /\ \E r \in seen : r.risk = thr_high /\ r.badge = "High"

\* C2: the decision-score fallback is taken only when predict_proba is
\* unavailable; any other failure of predict_proba ends the request in an
\* error and never yields a probability.
FallbackOnlyWhenUnavailable ==
    /\ (path = "fallback") => model.proba = "absent"
    /\ (model.proba = "raises") => (risk = Unset /\ badge = "")

\* C3: the vector handed to the model has exactly one entry per name of
\* train_order, in the order of train_order: column i is named
\* train_order[i] and carries the number collected for that name.
VectorFollowsTrainOrder ==
    Passed =>
        /\ X.columns = train_order
        /\ DOMAIN X.row = 1..Len(train_order)
        /\ \A i \in DOMAIN X.row :
              /\ train_order[i] \in DOMAIN inputs
              /\ X.row[i].v = inputs[train_order[i]].v

\* Two columns, one the form supplied and one it did not, while the form
\* also supplied fields the schema does not list.
VectorFollowsTrainOrderWitness ==
    /\ Passed
    /\ Len(train_order) = 2
    /\ \E i, j \in DOMAIN X.row :
          /\ train_order[i] \in UIFields
          /\ train_order[j] \notin UIFields
          /\ X.row[i].v # X.row[j].v
    /\ \E f \in UIFields : f \notin Range(train_order)

\* C4: every name of train_order the form supplied no value for enters the
\* vector as its default, 0 when binary and 0.0 when continuous.
AbsentGetDefault ==
    Passed =>
        \A i \in DOMAIN X.row :
            (train_order[i] \notin UIFields) =>
                X.row[i] = IF train_order[i] \in binary_feats
                           THEN IntVal(0) ELSE FloatVal(0)

\* A vector none of whose names the form supplied, one binary and one
\* continuous, although the user had changed the form.
AbsentGetDefaultWitness ==
    /\ Passed
    /\ Range(train_order) \cap UIFields = {}
    /\ session # DefaultSession
    /\ \E i, j \in DOMAIN X.row :
          /\ train_order[i] \in binary_feats
          /\ train_order[j] \notin binary_feats
          /\ X.row[i] = IntVal(0)
          /\ X.row[j] = FloatVal(0)

BinaryEntries ==
    Passed =>
        \A i \in DOMAIN X.row :
            (train_order[i] \in binary_feats) =>
                /\ X.row[i] \in {IntVal(0), IntVal(1)}
                /\ X.row[i] = IntVal(1) <=>
                      /\ train_order[i] \in UIFields
                      /\ train_order[i] \in EditableFields
                      /\ session[train_order[i]] = 1

\* A "Yes" and an absent binary feature in one vector.
BinaryEntriesWitness ==
    /\ Passed
    /\ \E i, j \in DOMAIN X.row :
          /\ train_order[i] \in binary_feats
          /\ train_order[j] \in binary_feats
          /\ train_order[j] \notin UIFields
          /\ X.row[i] = IntVal(1)
          /\ X.row[j] = IntVal(0)

\* C7: a request that completes without error has 0.0 <= risk <= 1.0, on the
\* primary path and on the fallback path.
RiskInUnitInterval ==
    (Passed /\ pc \in {"tier", "end"}) => (0 <= risk /\ risk <= Scale)

\* A request scored on the fallback path, after one scored differently.
RiskInUnitIntervalWitness ==
    /\ Done
    /\ path = "fallback"
    /\ 0 < risk
    /\ \E r \in seen : r.risk > risk /\ r.risk < Scale

\* C8: with 0 <= thr_low < thr_high <= 1 the tier is one of Low,
\* Intermediate, High and is monotone in the risk: of two requests, the one
\* with the smaller risk never has the higher tier.
TierMonotone ==
    (Done /\ 0 <= thr_low /\ thr_low < thr_high /\ thr_high <= Scale) =>
        /\ badge \in {"Low", "Intermediate", "High"}
        /\ \A r \in seen :
              /\ (r.risk <= risk) => Rank(r.badge) <= Rank(badge)
              /\ (risk <= r.risk) => Rank(badge) <= Rank(r.badge)

\* A Low request followed by a High one, and thresholds in order.
TierMonotoneWitness ==
    /\ Done
    /\ 0 <= thr_low /\ thr_low < thr_high /\ thr_high <= Scale
    /\ badge = "High"
    /\ \E r \in seen : r.badge = "Low" /\ r.risk < risk

\* C9: when the model or the schema artifact is missing or corrupt, or the
\* schema lacks one of its fields, no run gets past loading: no input is
\* collected, no frame built, no risk or badge produced.
NoServiceAfterFailedStartup ==
    BadStartup =>
        /\ pc \in {"load_model", "load_meta", "error"}
        /\ inputs = EmptyDict
        /\ X = NoFrame
        /\ risk = Unset
        /\ badge = ""

\* The schema lacks risk_thresholds.high only: the run stopped at line 63.
NoServiceAfterFailedStartupWitness ==
    /\ pc = "error"
    /\ err = "KeyError"
    /\ metaFile.keys = MetaKeys \ {"high"}
    /\ thr_low # Unset
    /\ thr_high = Unset

\* C10: past loading, train_order, binary_feats, the thresholds and the
\* model are those of the artifacts at every step of every request, and a
\* request with the same supplied inputs as an earlier one gives the same
\* vector, risk and tier, whatever requests ran between the two.
NoCarriedState ==
    /\ (pc \in {"collect", "defaults", "button", "assemble", "coerce",
                "predict", "tier", "end"}) =>
          /\ train_order = metaFile.features
          /\ binary_feats = metaFile.binary_features
          /\ thr_low = metaFile.low
          /\ thr_high = metaFile.high
          /\ model = [proba |-> modelFile.proba, decision |-> modelFile.decision]
    /\ Done =>
          \A r \in seen :
              (r.session = session) =>
                  (r.X = X /\ r.risk = risk /\ r.badge = badge)

\* A request repeated with the inputs of a remembered one, which were not
\* the form's initial values.
NoCarriedStateWitness ==
    /\ Done
    /\ session # DefaultSession
    /\ \E r \in seen : r.session = session /\ r.X = X /\ r.risk = risk

====
